---- MODULE Spec2Model ----
(***************************************************************************)
(* Model of insights_com_chatgpt.py: a Streamlit script that downloads the *)
(* twelve monthly "custeio administrativo" archives of one year, stacks    *)
(* them into one frame, filters it through three cascading select boxes,   *)
(* renders indicators, a chart and a table, and asks a chat-completion     *)
(* service for two narratives about the filtered frame.                    *)
(*                                                                         *)
(* A script run is the module body (lines 137-144) executed top to bottom. *)
(* Streamlit re-executes the whole body on every interaction; the only     *)
(* thing that survives a run is the widget state of the browser session.   *)
(*                                                                         *)
(* Texts (organisation and item names) are drawn from one-character texts  *)
(* and written as their code point, so that sorted() and == are the        *)
(* comparisons Python makes on them.  Columns that no statement of the     *)
(* script reads (the two "sigla" columns and natureza_despesa) are carried *)
(* through unchanged by the script and are left out of the rows.           *)
(***************************************************************************)
EXTENDS Integers, Sequences, FiniteSets, TLC

VARIABLES
  repo,         \* archive host: month (1..12) -> rows of that month's CSV file
  pc,           \* position of the script run
  ref,          \* load_data: loop variable of line 40
  fetched,      \* file names requested from the archive host in this run
  df_list,      \* load_data: the monthly frames read so far
  df,           \* the local frame of load_data, then of create_dashboard
  df_full,      \* module level, line 142 (<<>> while unassigned, else <<frame>>)
  df_filtered,  \* module level, line 143 (<<>> while unassigned, else <<frame>>)
  page,         \* elements the run has written to the page, in order
  widgets,      \* session widget state: level -> <<>> or <<[options, value]>>
  chat,         \* chat-completion requests sent in this run
  err           \* the function whose exception ended the run ("" if none)

vars == <<repo, pc, ref, fetched, df_list, df, df_full, df_filtered, page,
          widgets, chat, err>>

----------------------------------------------------------------------------
(* Bounds of the model *)

MaxRows == 2        \* rows in the twelve CSV files together
MaxDataMonth == 2   \* months after this one have a header-only CSV file

(* Program constants *)

ANO_ANALISE == 2021
NumMeses == 12
SELECT_ALL == 60    \* "<Todos>": the code point of "<"

FILE_PREFIX == "raiox"

(* Input domains: "1..." sorts before "<Todos>", "M..." after it *)
Nomes == {49, 77}
Valores == {-1, 2}

Meses == 1..NumMeses
Niveis == 1..3

Range(s) == {s[i] : i \in 1..Len(s)}

----------------------------------------------------------------------------
(* The archive host *)

\* One row of custeio-administrativo.csv, without its reference month
LinhasCsv ==
  [orgao_superior_nome : Nomes, orgao_nome : Nomes, nome_item : Nomes,
   valor : Valores]

SeqsUpTo(n) == UNION {[1..k -> LinhasCsv] : k \in 0..n}

\* Contents of the files of months 1..m that hold at most budget rows together
RECURSIVE Fill(_, _)
Fill(m, budget) ==
  IF m = 0 THEN {<<>>}
  ELSE UNION {{Append(p, s) : p \in Fill(m - 1, budget - Len(s))} :
              s \in SeqsUpTo(IF m <= MaxDataMonth THEN budget ELSE 0)}

\* The file of month m carries that month as its ano_mes_referencia
Repos ==
  {[m \in Meses |->
      [i \in 1..Len(f[m]) |->
         [ano_mes_referencia |-> ANO_ANALISE * 100 + m,
          orgao_superior_nome |-> f[m][i].orgao_superior_nome,
          orgao_nome |-> f[m][i].orgao_nome,
          nome_item |-> f[m][i].nome_item,
          valor |-> f[m][i].valor]]] : f \in Fill(NumMeses, MaxRows)}

----------------------------------------------------------------------------
(* load_data *)

\* f"{FILE_PREFIX}-{year}-{(ref + 1):02d}.zip"; quote() leaves these characters as they are
FileName(year, r) ==
  [prefix |-> FILE_PREFIX, year |-> year,
   month |-> <<((r + 1) \div 10) % 10, (r + 1) % 10>>, ext |-> "zip"]

\* pd.read_csv: the rows of the file under a fresh index 0..n-1
read_csv(rows) ==
  [i \in 1..Len(rows) |->
     [idx |-> i - 1,
      ano_mes_referencia |-> rows[i].ano_mes_referencia,
      orgao_superior_nome |-> rows[i].orgao_superior_nome,
      orgao_nome |-> rows[i].orgao_nome,
      nome_item |-> rows[i].nome_item,
      valor |-> rows[i].valor]]

RECURSIVE Stack(_)
Stack(frames) ==
  IF frames = <<>> THEN <<>> ELSE Head(frames) \o Stack(Tail(frames))

\* pd.concat without ignore_index: every row keeps the index of its month frame
pd_concat_keep_index(frames) == Stack(frames)

\* pd.concat(df_list, axis=0, ignore_index=True)
pd_concat(frames) ==
  LET s == Stack(frames)
  IN  [i \in 1..Len(s) |-> [s[i] EXCEPT !.idx = i - 1]]

\* str() of a non-negative integer: its decimal digits
RECURSIVE Str(_)
Str(n) == IF n < 10 THEN <<n>> ELSE Append(Str(n \div 10), n % 10)

\* Lines 50-56: period as text, column selection, the rename of nome_item
Assemble(frame) ==
  [i \in 1..Len(frame) |->
     [idx |-> frame[i].idx,
      ano_mes_referencia |-> Str(frame[i].ano_mes_referencia),
      orgao_superior_nome |-> frame[i].orgao_superior_nome,
      orgao_nome |-> frame[i].orgao_nome,
      item_despesa |-> frame[i].nome_item,
      valor |-> frame[i].valor]]

----------------------------------------------------------------------------
(* create_dashboard: the filters *)

Coluna(i) ==
  CASE i = 1 -> "orgao_superior_nome"
    [] i = 2 -> "orgao_nome"
    [] i = 3 -> "item_despesa"

Label(i) ==
  CASE i = 1 -> "Orgao Superior"
    [] i = 2 -> "Orgao"
    [] i = 3 -> "Item de despesa"

\* pd.unique(...).tolist(): the distinct values in order of first appearance
RECURSIVE Unique(_)
Unique(s) ==
  IF s = <<>> THEN <<>>
  ELSE LET u == Unique(SubSeq(s, 1, Len(s) - 1))
       IN  IF s[Len(s)] \in Range(u) THEN u ELSE Append(u, s[Len(s)])

Column(frame, col) == [i \in 1..Len(frame) |-> frame[i][col]]

\* The candidate list taken from the whole dataset instead of the working frame
OpcoesUnfiltered(frame, col) ==
  SortSeq(Append(Unique(Column(df_full[1], col)), SELECT_ALL),
          LAMBDA a, b : a < b)

\* Lines 66-68, 72-74, 78-80: sorted(unique values + [SELECT_ALL])
Opcoes(frame, col) ==
  SortSeq(Append(Unique(Column(frame, col)), SELECT_ALL), LAMBDA a, b : a < b)

\* A select box that keeps the session's value even when it is no longer offered
SelectboxStale(state, options) ==
  IF state # <<>> THEN state[1].value ELSE options[1]

\* st.selectbox(label, options): index=0 unless the session holds a value for
\* the same widget (same label and options)
Selectbox(state, options) ==
  IF state # <<>> /\ state[1].options = options
  THEN state[1].value
  ELSE options[1]

\* A filter that compares the wrong way round
FiltrarOutros(frame, col, v) == SelectSeq(frame, LAMBDA r : r[col] # v)

\* df[df[col] == v]: the matching rows, in order, under their index
Filtrar(frame, col, v) == SelectSeq(frame, LAMBDA r : r[col] = v)

----------------------------------------------------------------------------
(* create_dashboard: indicators, chart and table *)

\* Numbers are fractions <<numerator, denominator>>; <<0, 0>> is NaN
NaN == <<0, 0>>

RECURSIVE SeqSum(_)
SeqSum(s) == IF s = <<>> THEN 0 ELSE Head(s) + SeqSum(Tail(s))

SeriesMin(s) ==
  IF s = <<>> THEN NaN
  ELSE <<CHOOSE x \in Range(s) : \A y \in Range(s) : x <= y, 1>>

SeriesMax(s) ==
  IF s = <<>> THEN NaN
  ELSE <<CHOOSE x \in Range(s) : \A y \in Range(s) : x >= y, 1>>

SeriesMean(s) == IF s = <<>> THEN NaN ELSE <<SeqSum(s), Len(s)>>

SeriesSum(s) == <<SeqSum(s), 1>>

Abs(n) == IF n < 0 THEN -n ELSE n

\* locale.currency(x, grouping=True) under pt_BR: "R$ nan" for NaN, else the
\* sign, the symbol and the amount rounded to two decimals
Currency(x) ==
  IF x[2] = 0 THEN [symbol |-> "R$", nan |-> TRUE, negative |-> FALSE, cents |-> 0]
  ELSE [symbol |-> "R$", nan |-> FALSE, negative |-> x[1] < 0,
        cents |-> (2 * 100 * Abs(x[1]) + x[2]) \div (2 * x[2])]

Metric(label, x) == [kind |-> "metric", label |-> label, value |-> Currency(x)]

\* px.bar(data_frame=df, y="valor", x="ano_mes_referencia"), categorical x axis
Bar(frame) ==
  [kind |-> "plotly", xaxis_type |-> "category",
   x |-> Column(frame, "ano_mes_referencia"), y |-> Column(frame, "valor")]

----------------------------------------------------------------------------
(* get_insights *)

Colunas ==
  <<"ano_mes_referencia", "orgao_superior_nome", "orgao_nome", "item_despesa",
    "valor">>

\* str(df): a header line, then one line per row with its index and its cells
DfStr(frame) ==
  IF frame = <<>> THEN <<<<"Empty DataFrame">>, Colunas>>
  ELSE <<Colunas>> \o
       [i \in 1..Len(frame) |->
          <<frame[i].idx, frame[i].ano_mes_referencia,
            frame[i].orgao_superior_nome, frame[i].orgao_nome,
            frame[i].item_despesa, frame[i].valor>>]

Prompt(k) == IF k = 1 THEN "Informe 10 insights" ELSE "valores negativos"

\* A request that carries the conversation so far along with the new prompt
MensagensComContexto(k, frame) ==
  [j \in 1..Len(chat) |-> chat[j].messages[1]] \o
  <<[role |-> "user", prompt |-> Prompt(k), dataset |-> DfStr(frame)]>>

\* messages=[{"role": "user", "content": f"... {df}"}]
Mensagens(k, frame) ==
  <<[role |-> "user", prompt |-> Prompt(k), dataset |-> DfStr(frame)]>>

Request(k, frame) == [model |-> "gpt-3.5-turbo", messages |-> Mensagens(k, frame)]

Respostas == {"texto A", "texto B"}

----------------------------------------------------------------------------
(* The script run *)

Markdown(text) == [kind |-> "markdown", body |-> text]

Rendered(i) ==
  \E k \in 1..Len(page) : page[k].kind = "selectbox" /\ page[k].label = Label(i)

\* At the end of a run the session forgets the widgets the run did not render
Cleanup(w) == [i \in Niveis |-> IF Rendered(i) THEN w[i] ELSE <<>>]

\* An exception nothing catches: it leaves fn and the module body, the run ends
Raise(fn) ==
  /\ pc' = "aborted"
  /\ err' = fn
  /\ ref' = 0
  /\ df_list' = <<>>
  /\ df' = <<>>
  /\ widgets' = Cleanup(widgets)

Init ==
  /\ repo \in Repos
  /\ pc = "start"
  /\ ref = 0
  /\ fetched = <<>>
  /\ df_list = <<>>
  /\ df = <<>>
  /\ df_full = <<>>
  /\ df_filtered = <<>>
  /\ page = <<>>
  /\ widgets = [i \in Niveis |-> <<>>]
  /\ chat = <<>>
  /\ err = ""

\* Lines 137-140, then the call of load_data on line 142
Start ==
  /\ pc = "start"
  /\ page' = <<[kind |-> "title", body |-> "Custeio Administrativo"],
               [kind |-> "write", ano |-> ANO_ANALISE]>>
  /\ pc' = "fetch"
  /\ ref' = 0
  /\ UNCHANGED <<repo, fetched, df_list, df, df_full, df_filtered, widgets,
                 chat, err>>

\* Lines 40-46, one iteration: the archive arrives and its CSV is read
FetchOk ==
  /\ pc = "fetch"
  /\ ref < NumMeses
  /\ fetched' = Append(fetched, FileName(ANO_ANALISE, ref))
  /\ df_list' = Append(df_list, read_csv(repo[ref + 1]))
  /\ ref' = ref + 1
  /\ UNCHANGED <<repo, pc, df, df_full, df_filtered, page, widgets, chat, err>>

\* A failed month that is skipped: the loop goes on with the next one
FetchFailSkip ==
  /\ pc = "fetch"
  /\ ref < NumMeses
  /\ fetched' = Append(fetched, FileName(ANO_ANALISE, ref))
  /\ ref' = ref + 1
  /\ UNCHANGED <<repo, pc, df_list, df, df_full, df_filtered, page, widgets,
                 chat, err>>

\* Lines 43-45 raise (urlopen, ZipFile, file.open or read_csv)
FetchFail ==
  /\ pc = "fetch"
  /\ ref < NumMeses
  /\ fetched' = Append(fetched, FileName(ANO_ANALISE, ref))
  /\ Raise("load_data")
  /\ UNCHANGED <<repo, df_full, df_filtered, page, chat>>

\* Lines 48-56, after the twelfth iteration
Concat ==
  /\ pc = "fetch"
  /\ ref = NumMeses
  /\ df' = Assemble(pd_concat(df_list))
  /\ pc' = "load_return"
  /\ UNCHANGED <<repo, ref, fetched, df_list, df_full, df_filtered, page,
                 widgets, chat, err>>

\* Line 57 and line 142, then the call of create_dashboard(df_full) on line 143
LoadReturn ==
  /\ pc = "load_return"
  /\ df_full' = <<df>>
  /\ df_list' = <<>>
  /\ ref' = 0
  /\ pc' = "filtro1"
  /\ UNCHANGED <<repo, fetched, df, df_filtered, page, widgets, chat, err>>

PcFiltro(i) ==
  CASE i = 1 -> "filtro1"
    [] i = 2 -> "filtro2"
    [] i = 3 -> "filtro3"
    [] OTHER -> "metrics"

\* Lines 66-70, 72-76 and 78-82: the select box of level i and its filter
Filtro(i) ==
  /\ pc = PcFiltro(i)
  /\ LET options == Opcoes(df, Coluna(i))
         filtro == Selectbox(widgets[i], options)
     IN  /\ page' = Append(page, [kind |-> "selectbox", label |-> Label(i),
                                  options |-> options, value |-> filtro])
         /\ widgets' = [widgets EXCEPT
                          ![i] = <<[options |-> options, value |-> filtro]>>]
         /\ df' = IF filtro # SELECT_ALL THEN Filtrar(df, Coluna(i), filtro)
                  ELSE df
  /\ pc' = PcFiltro(i + 1)
  /\ UNCHANGED <<repo, ref, fetched, df_list, df_full, df_filtered, chat, err>>

\* Lines 85-95
Metrics ==
  /\ pc = "metrics"
  /\ LET valor == Column(df, "valor")
     IN  page' = page \o <<Metric("Minimo", SeriesMin(valor)),
                           Metric("Maximo", SeriesMax(valor)),
                           Metric("Media", SeriesMean(valor)),
                           Metric("Soma", SeriesSum(valor))>>
  /\ pc' = "chart"
  /\ UNCHANGED <<repo, ref, fetched, df_list, df, df_full, df_filtered,
                 widgets, chat, err>>

\* Lines 97-100
Chart ==
  /\ pc = "chart"
  /\ page' = page \o <<Markdown("### Serie temporal"), Bar(df)>>
  /\ pc' = "table"
  /\ UNCHANGED <<repo, ref, fetched, df_list, df, df_full, df_filtered,
                 widgets, chat, err>>

\* Lines 102-104 and line 143, then the call of get_insights on line 144
Table ==
  /\ pc = "table"
  /\ page' = page \o <<Markdown("### Dados detalhados"),
                       [kind |-> "dataframe", data |-> df]>>
  /\ df_filtered' = <<df>>
  /\ df' = <<>>
  /\ pc' = "insights1"
  /\ UNCHANGED <<repo, ref, fetched, df_list, df_full, widgets, chat, err>>

PcInsight(k) == IF k = 1 THEN "insights1" ELSE "insights2"

Header(k) == IF k = 1 THEN <<Markdown("### Insights do ChatGPT")>> ELSE <<>>

\* Lines 110-123 (k = 1) and 125-134 (k = 2): the request is answered
InsightOk(k) ==
  /\ pc = PcInsight(k)
  /\ chat' = Append(chat, Request(k, df_filtered[1]))
  /\ \E text \in Respostas : page' = page \o Header(k) \o <<Markdown(text)>>
  /\ pc' = IF k = 1 THEN "insights2" ELSE "done"
  /\ widgets' = IF k = 2 THEN Cleanup(widgets) ELSE widgets
  /\ UNCHANGED <<repo, ref, fetched, df_list, df, df_full, df_filtered, err>>

\* openai.ChatCompletion.create raises: without a key before anything is sent,
\* otherwise after the request went out (rejected key, network, bad response)
InsightFail(k) ==
  /\ pc = PcInsight(k)
  /\ \E sent \in BOOLEAN :
       chat' = IF sent THEN Append(chat, Request(k, df_filtered[1])) ELSE chat
  /\ page' = page \o Header(k)
  /\ Raise("get_insights")
  /\ UNCHANGED <<repo, fetched, df_full, df_filtered>>

\* A rerun that keeps the dataset of the last run and resumes at the filters
ScriptRerunCached ==
  /\ pc' = IF df_full = <<>> THEN "start" ELSE "filtro1"
  /\ ref' = 0
  /\ df_list' = <<>>
  /\ df' = IF df_full = <<>> THEN <<>> ELSE df_full[1]
  /\ df_filtered' = <<>>
  /\ page' = IF df_full = <<>> THEN <<>> ELSE SubSeq(page, 1, 2)
  /\ chat' = <<>>
  /\ err' = ""
  /\ UNCHANGED <<repo, fetched, df_full>>

\* Streamlit runs the module body again from its first line; no name of the
\* last run is bound in the new one
ScriptRerun ==
  /\ pc' = "start"
  /\ ref' = 0
  /\ fetched' = <<>>
  /\ df_list' = <<>>
  /\ df' = <<>>
  /\ df_full' = <<>>
  /\ df_filtered' = <<>>
  /\ page' = <<>>
  /\ chat' = <<>>
  /\ err' = ""
  /\ UNCHANGED repo

\* The user picks another entry of a select box on the page
Interact(i, v) ==
  /\ pc \in {"done", "aborted"}
  /\ widgets[i] # <<>>
  /\ v \in Range(widgets[i][1].options)
  /\ v # widgets[i][1].value
  /\ widgets' = [widgets EXCEPT ![i] = <<[@[1] EXCEPT !.value = v]>>]
  /\ ScriptRerun

\* The user asks for a rerun without touching a widget
Rerun ==
  /\ pc \in {"done", "aborted"}
  /\ UNCHANGED widgets
  /\ ScriptRerun

Next ==
  \/ Start
  \/ FetchOk
  \/ FetchFail
  \/ Concat
  \/ LoadReturn
  \/ \E i \in Niveis : Filtro(i)
  \/ Metrics
  \/ Chart
  \/ Table
  \/ \E k \in 1..2 : InsightOk(k)
  \/ \E k \in 1..2 : InsightFail(k)
  \/ \E i \in Niveis : \E v \in Nomes \cup {SELECT_ALL} : Interact(i, v)
  \/ Rerun

Spec == Init /\ [][Next]_vars

----------------------------------------------------------------------------
(* Reading the page *)

BoxOf(i) ==
  page[CHOOSE k \in 1..Len(page) :
         page[k].kind = "selectbox" /\ page[k].label = Label(i)]

HasKind(kind) == \E k \in 1..Len(page) : page[k].kind = kind

TableOf == page[CHOOSE k \in 1..Len(page) : page[k].kind = "dataframe"].data

\* Row r of the dataset passes the selections of the levels before i
Passes(r, i) ==
  \A j \in 1..(i - 1) :
    BoxOf(j).value = SELECT_ALL \/ r[Coluna(j)] = BoxOf(j).value

----------------------------------------------------------------------------
(* Properties *)

\* C1: the candidate list of every select box on the page is the set of
\* distinct values of its column among the dataset rows that pass the
\* selections of the earlier levels, plus the "all" sentinel.
C1_CascadingCandidates ==
  \A i \in Niveis :
    Rendered(i) =>
      Range(BoxOf(i).options) =
        {r[Coluna(i)] : r \in {x \in Range(df_full[1]) : Passes(x, i)}}
          \cup {SELECT_ALL}

\* C1 witness: a real value is selected at level 1 and the lists of levels 2
\* and 3 are both smaller than the unfiltered dataset would give.
C1_Witness ==
  /\ Rendered(3)
  /\ BoxOf(1).value # SELECT_ALL
  /\ \A i \in 2..3 :
       Range(BoxOf(i).options) #
         {r[Coluna(i)] : r \in Range(df_full[1])} \cup {SELECT_ALL}

\* C2: the frame create_dashboard returns is the dataset restricted to the
\* rows that equal every selection that is not the sentinel, in dataset order.
C2_WorkingSetIsConjunction ==
  df_filtered # <<>> =>
    df_filtered[1] =
      SelectSeq(df_full[1],
                LAMBDA r : \A j \in Niveis :
                  BoxOf(j).value = SELECT_ALL \/ r[Coluna(j)] = BoxOf(j).value)

\* C2 witness: a sentinel and a real selection together, and a row filtered out.
C2_Witness ==
  /\ df_filtered # <<>>
  /\ \E j \in Niveis : BoxOf(j).value = SELECT_ALL
  /\ \E j \in Niveis : BoxOf(j).value # SELECT_ALL
  /\ Len(df_filtered[1]) = 1
  /\ Len(df_full[1]) = 2

\* C3 (as claimed): when get_insights raises, the indicators, the chart and the
\* table stay on the page and the run is not aborted.
C3_InsightFailureConfined ==
  err = "get_insights" =>
    /\ HasKind("metric") /\ HasKind("plotly") /\ HasKind("dataframe")
    /\ pc # "aborted"

\* C4 (as claimed): when the select box of level 2 or 3 is rendered and the
\* value the session held for it is not in its new candidate list, the new
\* selection is the sentinel.
C4_ResetToSentinel ==
  [][\A i \in 2..3 :
       (/\ pc = PcFiltro(i)
        /\ pc' = PcFiltro(i + 1)
        /\ widgets[i] # <<>>
        /\ widgets[i][1].value \notin Range(widgets'[i][1].options))
       => widgets'[i][1].value = SELECT_ALL]_vars

\* C5 (as claimed): with a zero-row working set the summary stage does not
\* raise, shows no amount and draws no chart.
C5_EmptySetNeutral ==
  (df_filtered # <<>> /\ df_filtered[1] = <<>>) =>
    /\ err # "create_dashboard"
    /\ ~HasKind("plotly")

\* C6: the archives are requested one at a time in month order 1..12 under the
\* name <prefix>-<year>-<2-digit month>.zip, every requested month has given
\* its frame while the loop runs, and a failure at month m ends the run there:
\* m is the last request, no dataset exists and nothing but the title block is
\* on the page.
C6_SequentialFatalFetch ==
  /\ Len(fetched) <= NumMeses
  /\ \A k \in 1..Len(fetched) :
       fetched[k] = [prefix |-> "raiox", year |-> 2021,
                     month |-> <<k \div 10, k % 10>>, ext |-> "zip"]
  /\ pc \in {"fetch", "load_return"} =>
       Len(fetched) = ref /\ Len(df_list) = ref
  /\ pc = "load_return" => ref = NumMeses
  /\ err = "load_data" =>
       /\ pc = "aborted"
       /\ df_list = <<>> /\ df = <<>> /\ df_full = <<>> /\ df_filtered = <<>>
       /\ chat = <<>>
       /\ \A k \in 1..Len(page) : page[k].kind \in {"title", "write"}
       /\ \A i \in Niveis : widgets[i] = <<>>

\* C6 witness: month 1 arrived, month 2 failed.
C6_Witness == err = "load_data" /\ Len(fetched) = 2

Offset(m) ==
  LET RECURSIVE Before(_)
      Before(j) == IF j = 0 THEN 0 ELSE Len(repo[j]) + Before(j - 1)
  IN  Before(m - 1)

\* C7: the frame load_data returns has one row per row of the twelve files;
\* row p of month m stands at position (rows of the earlier months) + p,
\* carries that position (from 0) as its identity and the cells of its source.
C7_ConcatInMonthOrder ==
  pc = "load_return" =>
    /\ Len(df) = Offset(NumMeses + 1)
    /\ \A m \in Meses : \A p \in 1..Len(repo[m]) :
         LET r == df[Offset(m) + p]
             c == repo[m][p]
         IN  /\ r.idx = Offset(m) + p - 1
             /\ r.ano_mes_referencia = <<2, 0, 2, 1, m \div 10, m % 10>>
             /\ r.orgao_superior_nome = c.orgao_superior_nome
             /\ r.orgao_nome = c.orgao_nome
             /\ r.item_despesa = c.nome_item
             /\ r.valor = c.valor

\* C7 witness: two months with one row each, the two rows alike but for the month.
C7_Witness ==
  /\ pc = "load_return"
  /\ Len(repo[1]) = 1 /\ Len(repo[2]) = 1
  /\ repo[1][1].orgao_nome = repo[2][1].orgao_nome
  /\ repo[1][1].valor = repo[2][1].valor

\* C8, order of the stages inside a run
C8_StageOrder ==
  /\ df_full # <<>> => Len(fetched) = NumMeses
  /\ Rendered(1) => df_full # <<>>
  /\ HasKind("metric") => \A i \in Niveis : Rendered(i)
  /\ HasKind("plotly") => HasKind("metric")
  /\ HasKind("dataframe") => HasKind("plotly") /\ df_filtered # <<>>
  /\ chat # <<>> => HasKind("dataframe")
  /\ pc = "done" => Len(chat) = 2

\* C8, a run that ended is followed only by a run that starts with nothing
C8_FreshRun ==
  pc \in {"done", "aborted"} =>
    \/ pc' = pc
    \/ /\ pc' = "start"
       /\ fetched' = <<>> /\ df_list' = <<>> /\ df_full' = <<>>
       /\ df_filtered' = <<>> /\ page' = <<>> /\ chat' = <<>>

\* C8: within a run the stages come in the order fetch, assemble, filter,
\* render, insights, each after the one before is complete, and every
\* interaction starts a run from the first line with nothing kept of the last.
C8_LinearFullRerun == []C8_StageOrder /\ [][C8_FreshRun]_vars

\* C8 witness: a run completed with a selection only an interaction can make.
C8_Witness ==
  /\ pc = "done"
  /\ BoxOf(2).value # BoxOf(2).options[1]

C10_NeverEmpty ==
  (df_full # <<>> /\ df_full[1] # <<>>) =>
    /\ pc \in {"filtro2", "filtro3", "metrics", "chart", "table"} => df # <<>>
    /\ df_filtered # <<>> => df_filtered[1] # <<>>

\* C10 witness: three real selections that leave one row of two.
C10_Witness ==
  /\ df_filtered # <<>>
  /\ Len(df_full[1]) = 2
  /\ Len(df_filtered[1]) = 1
  /\ \A j \in Niveis : BoxOf(j).value # SELECT_ALL

====
